---------------------------- MODULE Spec2Model ----------------------------
(***************************************************************************)
(* A model of the transactional revision of the key-value server           *)
(* (src/main.go): the shared KeyValueDB (data, queues, mu), the accept     *)
(* loop, and one handleClient goroutine per accepted connection.           *)
(*                                                                         *)
(* Go strings are sequences of one-character strings, so that TrimSpace,   *)
(* Fields, ToUpper, Join, ParseInt and FormatInt are computed and not      *)
(* assumed.  A line written to a connection is the record                  *)
(* [fmt |-> the format text, arg |-> the text substituted into it].        *)
(***************************************************************************)
EXTENDS Integers, Sequences, FiniteSets, TLC

\* ------------------------------------------------------------------ bounds

\* Connections the accept loop takes in the general specification.
MaxConns == 2
\* Longest transaction queue a client builds before it stops queueing.
MaxQueue == 2
\* A client stops sending INCR / INCRBY once the counter has reached this.
MaxCount == 2
\* Connections of the concurrent-increment scenario.
IncrConns == 3
\* Width of the machine integer standing for Go's int64.
IntBits == 16

\* ------------------------------------------------------------ Go strings

SP == " "
QUOTE == "\""

Lower == <<"a","b","c","d","e","f","g","h","i","j","k","l","m","n","o","p","q","r","s","t","u","v","w","x","y","z">>
Upper == <<"A","B","C","D","E","F","G","H","I","J","K","L","M","N","O","P","Q","R","S","T","U","V","W","X","Y","Z">>
Digits == <<"0","1","2","3","4","5","6","7","8","9">>

\* unicode.ToUpper on the lower-case letters
UpperOf == [ch \in {Lower[i] : i \in 1..Len(Lower)} |->
               Upper[CHOOSE i \in 1..Len(Lower) : Lower[i] = ch]]

\* unicode.ToUpper on one character
UpperChar(ch) == IF ch \in DOMAIN UpperOf THEN UpperOf[ch] ELSE ch

\* strings.ToUpper
ToUpper(s) == [i \in 1..Len(s) |-> UpperChar(s[i])]

\* unicode.IsSpace, on the characters the lines use
IsSpace(ch) == ch = SP

RECURSIVE TrimLeft(_)
TrimLeft(s) ==
    IF s # <<>> /\ IsSpace(Head(s)) THEN TrimLeft(Tail(s)) ELSE s

RECURSIVE TrimRight(_)
TrimRight(s) ==
    IF s # <<>> /\ IsSpace(s[Len(s)]) THEN TrimRight(SubSeq(s, 1, Len(s) - 1)) ELSE s

\* strings.TrimSpace
TrimSpace(s) == TrimRight(TrimLeft(s))

\* strings.Fields: the maximal whitespace-free runs of s, in order: the k-th
\* field runs from the k-th position that starts a run to the first position
\* from there that ends one.
Fields(s) ==
    LET n == Len(s)
        IsStart(i) == ~IsSpace(s[i]) /\ (IF i = 1 THEN TRUE ELSE IsSpace(s[i - 1]))
        IsEnd(i) == ~IsSpace(s[i]) /\ (IF i = n THEN TRUE ELSE IsSpace(s[i + 1]))
        starts == {i \in 1..n : IsStart(i)}
        Nth(k) == CHOOSE i \in starts : Cardinality({j \in starts : j < i}) = k - 1
        EndOf(i) == CHOOSE j \in i..n : IsEnd(j) /\ \A m \in i..(j - 1) : ~IsEnd(m)
    IN  [k \in 1..Cardinality(starts) |-> SubSeq(s, Nth(k), EndOf(Nth(k)))]

\* strings.Join
RECURSIVE Join(_, _)
Join(elems, sep) ==
    IF elems = <<>> THEN <<>>
    ELSE IF Len(elems) = 1 THEN elems[1]
    ELSE elems[1] \o sep \o Join(Tail(elems), sep)

\* strings.Contains, HasPrefix and HasSuffix for a one-character pattern
Contains(s, ch) == \E i \in 1..Len(s) : s[i] = ch
HasPrefix(s, ch) == s # <<>> /\ s[1] = ch
HasSuffix(s, ch) == s # <<>> /\ s[Len(s)] = ch

\* The range of the machine integer.
MaxInt == 2^(IntBits - 1) - 1
MinInt == -(2^(IntBits - 1))

\* Two's-complement wrap-around of Go's signed addition.
Wrap(n) == ((n - MinInt) % 2^IntBits) + MinInt

DigitVal(ch) == (CHOOSE i \in 1..10 : Digits[i] = ch) - 1
IsDigit(ch) == \E i \in 1..10 : Digits[i] = ch

\* The value of a run of decimal digits, saturated just above the range so
\* that a long run is seen to be out of range without overflowing.
RECURSIVE DigitsVal(_, _)
DigitsVal(s, acc) ==
    IF s = <<>> THEN acc
    ELSE LET n == acc * 10 + DigitVal(Head(s)) IN
         DigitsVal(Tail(s), IF n > MaxInt + 1 THEN MaxInt + 2 ELSE n)

\* A parser that takes every text for the integer 0.
ParseIntAny(s) == [ok |-> TRUE, val |-> 0]

\* strconv.ParseInt(s, 10, 64): an optional sign, then one or more digits,
\* the value within the integer range; [ok |-> FALSE] stands for err != nil.
ParseInt(s) ==
    LET signed == s # <<>> /\ (s[1] = "+" \/ s[1] = "-")
        neg == s # <<>> /\ s[1] = "-"
        ds == IF signed THEN Tail(s) ELSE s
    IN  IF ds = <<>> \/ \E i \in 1..Len(ds) : ~IsDigit(ds[i])
        THEN [ok |-> FALSE, val |-> 0]
        ELSE LET m == DigitsVal(ds, 0)
                 v == IF neg THEN -m ELSE m
             IN  IF v < MinInt \/ v > MaxInt
                 THEN [ok |-> FALSE, val |-> 0]
                 ELSE [ok |-> TRUE, val |-> v]

RECURSIVE NatText(_)
NatText(n) ==
    IF n < 10 THEN <<Digits[n + 1]>> ELSE NatText(n \div 10) \o <<Digits[(n % 10) + 1]>>

\* strconv.FormatInt(n, 10)
FormatInt(n) == IF n < 0 THEN <<"-">> \o NatText(-n) ELSE NatText(n)


\* ------------------------------------------------------------ the protocol

CmdSET == <<"S","E","T">>
CmdGET == <<"G","E","T">>
CmdDELETE == <<"D","E","L","E","T","E">>
CmdINCR == <<"I","N","C","R">>
CmdINCRBY == <<"I","N","C","R","B","Y">>
CmdMULTI == <<"M","U","L","T","I">>
CmdEXEC == <<"E","X","E","C">>
CmdDISCONNECT == <<"D","I","S","C","O","N","N","E","C","T">>

\* The names the handler's first case of the switch takes.
DataCommands == {CmdSET, CmdGET, CmdDELETE, CmdINCR, CmdINCRBY}

\* A line written to a connection, without its newline.
Reply(f, a) == [fmt |-> f, arg |-> a]

ReplyOK == Reply("OK", <<>>)
ReplyQueued == Reply("QUEUED", <<>>)
ReplyNil == Reply("(nil)", <<>>)
ReplyOne == Reply("(integer) 1", <<>>)
ReplyZero == Reply("(integer) 0", <<>>)
ReplyNoTx == Reply("ERR No transaction in progress", <<>>)
ReplyNoSuchTx == Reply("ERR Transaction does not exist", <<>>)
ReplySyntax == Reply("ERR syntax error: Value should be enclosed in quotes", <<>>)
ReplyNotInt == Reply("ERR value is not an integer", <<>>)
ReplyBadIncr == Reply("ERR invalid increment", <<>>)
ReplyUsageSet == Reply("Usage: SET <key> <value>", <<>>)
ReplyUsageGet == Reply("Usage: GET <key>", <<>>)
ReplyUsageDelete == Reply("Usage: DELETE <key>", <<>>)
ReplyUsageIncr == Reply("Usage: INCR <key>", <<>>)
ReplyUsageIncrBy == Reply("Usage: INCRBY <key> <increment>", <<>>)
ReplyUnknown(command) == Reply("Unknown command: %s", command)
ReplyQuoted(v) == Reply("%q", v)
ReplyInteger(n) == Reply("(integer) %d", FormatInt(n))
ReplyText(s) == Reply("%s", s)

\* The lines a client sends.
\* SET a "1 2"
LSetQuoted == <<"S","E","T",SP,"a",SP,QUOTE,"1",SP,"2",QUOTE>>
\* set a x
LSetPlain == <<"s","e","t",SP,"a",SP,"x">>
\* SET a x y
LSetUnquoted == <<"S","E","T",SP,"a",SP,"x",SP,"y">>
\* SET a
LSetShort == <<"S","E","T",SP,"a">>
\* GET a, with blanks before, between and after the fields
LGet == <<SP,"G","E","T",SP,SP,"a",SP>>
\* DELETE a
LDelete == <<"D","E","L","E","T","E",SP,"a">>
\* INCR a
LIncr == <<"I","N","C","R",SP,"a">>
\* INCRBY a 2
LIncrBy == <<"I","N","C","R","B","Y",SP,"a",SP,"2">>
\* INCRBY a x
LIncrByBad == <<"I","N","C","R","B","Y",SP,"a",SP,"x">>
\* INCRBY a -1
LIncrByNeg == <<"I","N","C","R","B","Y",SP,"a",SP,"-","1">>
\* MULTI
LMulti == <<"M","U","L","T","I">>
\* EXEC
LExec == <<"E","X","E","C">>
\* DISCONNECT
LDisconnect == <<"D","I","S","C","O","N","N","E","C","T">>
\* foo
LUnknown == <<"f","o","o">>
\* a blank line
LBlank == <<SP>>

\* Every line above: the vocabulary of a client of the sequential server.
Lines ==
    { LSetQuoted, LSetPlain, LSetUnquoted, LSetShort, LGet, LDelete, LIncr,
      LIncrBy, LIncrByBad, LMulti, LExec, LDisconnect, LUnknown, LBlank }

\* The vocabulary of the clients that run transactions side by side.
TxLines == { LSetQuoted, LGet, LMulti, LExec, LDisconnect }

\* The vocabulary of the clients that use the Store side by side.
StoreLines ==
    { LSetQuoted, LSetPlain, LSetUnquoted, LGet, LDelete, LIncr, LIncrBy, LDisconnect }

\* The keys and the values of the SET lines of the set-then-get scenario:
\* x, "x", "1 2", " ", x y, "x y, x y" and a lone double quote.
SetKeys == { <<"a">>, <<"b">> }
SetValues ==
    { <<"x">>, <<QUOTE,"x",QUOTE>>, <<QUOTE,"1",SP,"2",QUOTE>>, <<QUOTE,SP,QUOTE>>,
      <<"x",SP,"y">>, <<QUOTE,"x",SP,"y">>, <<"x",SP,"y",QUOTE>>, <<QUOTE>> }

\* SET k v and GET k
SetLine(k, v) == <<"S","E","T",SP>> \o k \o <<SP>> \o v
GetLine(k) == <<"G","E","T",SP>> \o k

\* DELETE k
DeleteLine(k) == <<"D","E","L","E","T","E",SP>> \o k

\* The vocabulary of the clients that set, delete and get two keys side by side.
DeleteLines ==
    {SetLine(k, <<"x">>) : k \in SetKeys} \cup {DeleteLine(k) : k \in SetKeys}
        \cup {GetLine(k) : k \in SetKeys}

\* GET, DELETE, INCR without a key and INCRBY a without an amount
LGetShort == <<"G","E","T">>
LDeleteShort == <<"D","E","L","E","T","E">>
LIncrShort == <<"I","N","C","R">>
LIncrByShort == <<"I","N","C","R","B","Y",SP,"a">>

\* The vocabulary of the clients that make every error side by side.
ErrLines ==
    { LSetPlain, LSetShort, LSetUnquoted, LGet, LGetShort, LDeleteShort, LIncr,
      LIncrShort, LIncrByBad, LIncrByShort, LExec, LUnknown, LDisconnect }

\* Every line: the vocabulary of a client of the sequential server that also
\* makes every usage error.
FrameLines == Lines \cup { LGetShort, LDeleteShort, LIncrShort, LIncrByShort }

\* The vocabulary of the clients that take a counter to the ends of the
\* integer range: SET a <MaxInt>, SET a <MinInt>, GET a and the increments.
WrapLines ==
    { SetLine(<<"a">>, FormatInt(MaxInt)), SetLine(<<"a">>, FormatInt(MinInt)),
      GetLine(<<"a">>), LIncr, LIncrBy, LIncrByNeg }

\* The vocabulary of the clients that call every operation of the Store
\* side by side.
LockLines == { LSetPlain, LGet, LDelete, LIncr, LMulti, LExec }

\* The vocabulary of the clients that increment one key side by side.
IncrLines == { LIncr, LIncrBy, LIncrByNeg }

\* ---------------------------------------------------------------- Go maps

EmptyMap == [k \in {} |-> <<>>]
Put(m, k, v) == [x \in (DOMAIN m) \cup {k} |-> IF x = k THEN v ELSE m[x]]
\* A delete that removes nothing.
RemoveNothing(m, k) == m
Remove(m, k) == [x \in (DOMAIN m) \ {k} |-> m[x]]

\* ------------------------------------------------------------------- state

VARIABLES
    data,         \* KeyValueDB.data
    queues,       \* KeyValueDB.queues
    mu,           \* KeyValueDB.mu: the writer holding it (0: none), the readers
    accepted,     \* how many connections main's loop has accepted
    pc,           \* each handler's position
    currentTxID,  \* handleClient's currentTxID
    cmd,          \* handleClient's cmd, the trimmed line of this iteration
    ret,          \* where executeSingleCommand returns to
    val,          \* Incr's val while Incr runs (empty outside it)
    ok,           \* Delete's ok while Delete runs (FALSE outside it)
    batch,        \* Exec's queue: what this iteration's EXEC took from the table
    responses,    \* the EXEC case's responses not yet written
    written       \* the lines written to the connection since its last read

vars == <<data, queues, mu, accepted, pc, currentTxID, cmd, ret, val, ok, batch, responses, written>>

\* The connections a server can come to serve, and those it serves.
ConnIds == 1 .. (IF MaxConns > IncrConns THEN MaxConns ELSE IncrConns)
Conns == 1..accepted

\* handleClient's parts and command, and the arguments the calls receive
Parts(c) == Fields(cmd[c])
Command(c) == ToUpper(Parts(c)[1])
Key(c) == Parts(c)[2]
\* The value without the double quotes around it.
ValueUnquoted(c) ==
    LET v == Join(SubSeq(Parts(c), 3, Len(Parts(c))), <<SP>>) IN
    IF Len(v) >= 2 /\ v[1] = QUOTE /\ v[Len(v)] = QUOTE THEN SubSeq(v, 2, Len(v) - 1) ELSE v
Value(c) == Join(SubSeq(Parts(c), 3, Len(Parts(c))), <<SP>>)
\* An increment that is always 1.
ByOne(c) == 1
By(c) == IF Command(c) = CmdINCR THEN 1 ELSE ParseInt(Parts(c)[3]).val

\* ---------------------------------------------------------------- the lock

\* sync.RWMutex.  A handler at a Lock or RLock position has made the call
\* and has not returned from it.  Lock returns when no writer and no reader
\* holds the mutex.  RLock returns when no writer holds the mutex or waits
\* for it (a blocked Lock keeps new readers out); the readers blocked in
\* RLock while a writer held the mutex are let in by its Unlock, ahead of
\* the next writer.

\* The positions at which a handler is inside a call of Lock.
LockPcs == {"Set.Lock", "Delete.Lock", "Incr.Lock", "Queue.Lock", "Exec.Lock"}

\* A mutex whose Lock never waits.
CanLockAlways == TRUE
CanLock == mu.writer = 0 /\ mu.readers = {}

\* A mutex whose RLock never waits.
CanRLockAlways == TRUE
CanRLock == mu.writer = 0 /\ \A d \in ConnIds : pc[d] \notin LockPcs

Lock(c) == mu' = [mu EXCEPT !.writer = c]
\* An Unlock that leaves the mutex held.
UnlockNever(c) == mu' = mu
Unlock(c) ==
    mu' = [writer |-> 0, readers |-> mu.readers \cup {d \in ConnIds : pc[d] = "Get.RLock"}]
RLock(c) == mu' = [mu EXCEPT !.readers = @ \cup {c}]
RUnlock(c) == mu' = [mu EXCEPT !.readers = @ \ {c}]

\* --------------------------------------------------------- pure functions

\* A validation that accepts every value.
isValidValueAlways(value) == TRUE
isValidValue(value) ==
    IF Contains(value, SP)
    THEN HasPrefix(value, QUOTE) /\ HasSuffix(value, QUOTE)
    ELSE TRUE

\* An executeSingleCommand that returns at once and writes nothing.
ExecuteSingleCommandSilent(command, parts) == [pc |-> "return", out |-> <<>>]

\* executeSingleCommand up to its first call that takes the lock: the lines
\* it writes at once (out), and the Store operation it goes on to, or
\* "return" when it has returned.  db.Set's validation precedes its Lock.
ExecuteSingleCommand(command, parts) ==
    CASE command = CmdSET ->
           IF Len(parts) < 3 THEN [pc |-> "return", out |-> <<ReplyUsageSet>>]
           ELSE IF ~isValidValue(Join(SubSeq(parts, 3, Len(parts)), <<SP>>))
                THEN [pc |-> "return", out |-> <<ReplySyntax>>]
                ELSE [pc |-> "Set.Lock", out |-> <<>>]
      [] command = CmdGET ->
           IF Len(parts) < 2 THEN [pc |-> "return", out |-> <<ReplyUsageGet>>]
           ELSE [pc |-> "Get.RLock", out |-> <<>>]
      [] command = CmdDELETE ->
           IF Len(parts) < 2 THEN [pc |-> "return", out |-> <<ReplyUsageDelete>>]
           ELSE [pc |-> "Delete.Lock", out |-> <<>>]
      [] command = CmdINCR ->
           IF Len(parts) < 2 THEN [pc |-> "return", out |-> <<ReplyUsageIncr>>]
           ELSE [pc |-> "Incr.Lock", out |-> <<>>]
      [] command = CmdINCRBY ->
           IF Len(parts) < 3 THEN [pc |-> "return", out |-> <<ReplyUsageIncrBy>>]
           ELSE IF ~ParseInt(parts[3]).ok
                THEN [pc |-> "return", out |-> <<ReplyBadIncr>>]
                ELSE [pc |-> "Incr.Lock", out |-> <<>>]
      [] OTHER -> [pc |-> "return", out |-> <<ReplyUnknown(command)>>]

\* The response Exec's loop appends for one queued command (none for a
\* command without fields).
ExecResponse(queued) ==
    LET parts == Fields(queued) IN
    IF Len(parts) = 0 THEN <<>>
    ELSE LET command == ToUpper(parts[1]) IN
         IF command = CmdSET
         THEN IF Len(parts) < 3 THEN <<ReplyUsageSet>> ELSE <<ReplyText(queued)>>
         ELSE <<ReplyUnknown(command)>>

\* Exec's responses for a queue.
RECURSIVE ExecResponses(_)
ExecResponses(queue) ==
    IF queue = <<>> THEN <<>>
    ELSE ExecResponse(Head(queue)) \o ExecResponses(Tail(queue))

\* ----------------------------------------------------------------- actions

Init ==
    /\ data = EmptyMap
    /\ queues = EmptyMap
    /\ mu = [writer |-> 0, readers |-> {}]
    /\ accepted = 0
    /\ pc = [c \in ConnIds |-> "none"]
    /\ currentTxID = [c \in ConnIds |-> ""]
    /\ cmd = [c \in ConnIds |-> <<>>]
    /\ ret = [c \in ConnIds |-> "read"]
    /\ val = [c \in ConnIds |-> <<>>]
    /\ ok = [c \in ConnIds |-> FALSE]
    /\ batch = [c \in ConnIds |-> <<>>]
    /\ responses = [c \in ConnIds |-> <<>>]
    /\ written = [c \in ConnIds |-> <<>>]

\* main's loop: Accept, then go handleClient(conn, db); the handler starts
\* at the top of its loop with currentTxID = "".
AcceptConn ==
    /\ accepted' = accepted + 1
    /\ pc' = [pc EXCEPT ![accepted + 1] = "read"]
    /\ UNCHANGED <<data, queues, mu, currentTxID, cmd, ret, val, ok, batch, responses, written>>

\* The accept loop of a server that serves MaxConns connections, of one that
\* serves two, of one that serves a single connection, and of one that
\* serves IncrConns.
Accept == accepted < MaxConns /\ AcceptConn
AcceptPair == accepted < 2 /\ AcceptConn
AcceptOne == accepted = 0 /\ AcceptConn
AcceptIncr == accepted < IncrConns /\ AcceptConn

\* executeSingleCommand has written out and returns: to the top of the
\* handler's loop, or into the EXEC case's loop, which writes the response
\* of this iteration and goes to the next.
Return(c, out) ==
    /\ pc' = [pc EXCEPT ![c] = ret[c]]
    /\ written' = [written EXCEPT ![c] =
           @ \o out \o (IF ret[c] = "ExecLoop" THEN <<Head(responses[c])>> ELSE <<>>)]
    /\ responses' = [responses EXCEPT ![c] = IF ret[c] = "ExecLoop" THEN Tail(@) ELSE @]

\* The data-command case's test: no transaction is open, the command is
\* executed at once.
DirectModeAlways(c) == TRUE
DirectMode(c) == currentTxID[c] = ""

\* The EXEC case's test: no transaction is open.
NoTransactionNever(c) == FALSE
NoTransaction(c) == currentTxID[c] = ""

\* The identifier the MULTI case gives the transaction.
MultiTxID == "1"

\* One iteration of handleClient's loop for the line read, up to its first
\* call that takes the lock.
ReadLineOf(c, line) ==
    LET t == TrimSpace(line)
        parts == Fields(t)
        command == ToUpper(parts[1])
    IN
    /\ pc[c] = "read"
    /\ cmd' = [cmd EXCEPT ![c] = t]
    /\ batch' = [batch EXCEPT ![c] = <<>>]
    /\ UNCHANGED <<data, queues, mu, accepted, val, ok, responses>>
    /\ IF Len(parts) = 0
       THEN /\ written' = [written EXCEPT ![c] = <<>>]
            /\ UNCHANGED <<pc, currentTxID, ret>>
       ELSE
       CASE command \in DataCommands ->
              IF DirectMode(c)
              THEN LET r == ExecuteSingleCommand(command, parts) IN
                   /\ pc' = [pc EXCEPT ![c] = IF r.pc = "return" THEN "read" ELSE r.pc]
                   /\ ret' = [ret EXCEPT ![c] = "read"]
                   /\ written' = [written EXCEPT ![c] = r.out]
                   /\ UNCHANGED currentTxID
              ELSE /\ pc' = [pc EXCEPT ![c] = "Queue.Lock"]
                   /\ written' = [written EXCEPT ![c] = <<>>]
                   /\ UNCHANGED <<currentTxID, ret>>
         [] command = CmdMULTI ->
              /\ currentTxID' = [currentTxID EXCEPT ![c] = MultiTxID]
              /\ written' = [written EXCEPT ![c] = <<ReplyOK>>]
              /\ UNCHANGED <<pc, ret>>
         [] command = CmdEXEC ->
              IF NoTransaction(c)
              THEN /\ written' = [written EXCEPT ![c] = <<ReplyNoTx>>]
                   /\ UNCHANGED <<pc, currentTxID, ret>>
              ELSE /\ pc' = [pc EXCEPT ![c] = "Exec.Lock"]
                   /\ written' = [written EXCEPT ![c] = <<>>]
                   /\ UNCHANGED <<currentTxID, ret>>
         [] command = CmdDISCONNECT ->
              /\ pc' = [pc EXCEPT ![c] = "closed"]
              /\ written' = [written EXCEPT ![c] = <<>>]
              /\ UNCHANGED <<currentTxID, ret>>
         [] OTHER ->
              /\ written' = [written EXCEPT ![c] = <<ReplyUnknown(command)>>]
              /\ UNCHANGED <<pc, currentTxID, ret>>

\* The length of the queue a line of c would be appended to.
QueueLen(c) ==
    IF currentTxID[c] \in DOMAIN queues THEN Len(queues[currentTxID[c]]) ELSE 0

\* What a client sends: it stops queueing at MaxQueue commands and stops
\* incrementing a counter that has reached MaxCount.
Offered(c, line) ==
    LET parts == Fields(line) IN
    IF Len(parts) = 0 THEN TRUE
    ELSE LET command == ToUpper(parts[1]) IN
         IF command \notin DataCommands THEN TRUE
         ELSE IF currentTxID[c] # "" THEN QueueLen(c) < MaxQueue
         ELSE IF command \in {CmdINCR, CmdINCRBY} /\ Len(parts) >= 2
                 /\ parts[2] \in DOMAIN data /\ ParseInt(data[parts[2]]).ok
              THEN ParseInt(data[parts[2]]).val < MaxCount
              ELSE TRUE

\* handleClient reads one of the lines of the client's vocabulary.
ReadLine(c, vocabulary) ==
    \E line \in vocabulary : Offered(c, line) /\ ReadLineOf(c, line)

\* reader.ReadString fails: the handler returns and the connection closes.
ReadError(c) ==
    /\ pc[c] = "read"
    /\ pc' = [pc EXCEPT ![c] = "closed"]
    /\ UNCHANGED <<data, queues, mu, accepted, currentTxID, cmd, ret, val, ok, batch, responses, written>>

\* What a step of one Store operation leaves alone in the handler.
HandlerSame == UNCHANGED <<accepted, currentTxID, cmd, ret, batch>>

\* db.Set: db.mu.Lock()
SetLock(c) ==
    /\ pc[c] = "Set.Lock"
    /\ CanLock
    /\ Lock(c)
    /\ pc' = [pc EXCEPT ![c] = "Set.body"]
    /\ UNCHANGED <<data, queues, val, ok, responses, written>>
    /\ HandlerSame

\* db.Set: db.data[key] = value, the deferred Unlock; the caller writes OK.
SetBody(c) ==
    /\ pc[c] = "Set.body"
    /\ data' = Put(data, Key(c), Value(c))
    /\ Unlock(c)
    /\ Return(c, <<ReplyOK>>)
    /\ UNCHANGED <<queues, val, ok>>
    /\ HandlerSame

\* db.Get: db.mu.RLock() returns, to a reader an Unlock has let in or to
\* one that need not wait.
GetRLock(c) ==
    /\ pc[c] = "Get.RLock"
    /\ c \in mu.readers \/ CanRLock
    /\ RLock(c)
    /\ pc' = [pc EXCEPT ![c] = "Get.body"]
    /\ UNCHANGED <<data, queues, val, ok, responses, written>>
    /\ HandlerSame

\* db.Get: val, ok := db.data[key], the deferred RUnlock; the caller writes
\* the quoted value or (nil).
GetBody(c) ==
    /\ pc[c] = "Get.body"
    /\ RUnlock(c)
    /\ Return(c, IF Key(c) \in DOMAIN data
                 THEN <<ReplyQuoted(data[Key(c)])>>
                 ELSE <<ReplyNil>>)
    /\ UNCHANGED <<data, queues, val, ok>>
    /\ HandlerSame

\* db.Delete: db.mu.Lock()
DeleteLock(c) ==
    /\ pc[c] = "Delete.Lock"
    /\ CanLock
    /\ Lock(c)
    /\ pc' = [pc EXCEPT ![c] = "Delete.read"]
    /\ UNCHANGED <<data, queues, val, ok, responses, written>>
    /\ HandlerSame

\* db.Delete: _, ok := db.data[key]
DeleteRead(c) ==
    /\ pc[c] = "Delete.read"
    /\ ok' = [ok EXCEPT ![c] = Key(c) \in DOMAIN data]
    /\ pc' = [pc EXCEPT ![c] = "Delete.delete"]
    /\ UNCHANGED <<data, queues, mu, val, responses, written>>
    /\ HandlerSame

\* db.Delete: if ok, delete(db.data, key); the deferred Unlock; the caller
\* writes (integer) 1 or (integer) 0.
DeleteDelete(c) ==
    /\ pc[c] = "Delete.delete"
    /\ data' = IF ok[c] THEN Remove(data, Key(c)) ELSE data
    /\ Unlock(c)
    /\ Return(c, IF ok[c] THEN <<ReplyOne>> ELSE <<ReplyZero>>)
    /\ ok' = [ok EXCEPT ![c] = FALSE]
    /\ UNCHANGED <<queues, val>>
    /\ HandlerSame

\* db.Incr: db.mu.Lock()
IncrLock(c) ==
    /\ pc[c] = "Incr.Lock"
    /\ CanLock
    /\ Lock(c)
    /\ pc' = [pc EXCEPT ![c] = "Incr.read"]
    /\ UNCHANGED <<data, queues, val, ok, responses, written>>
    /\ HandlerSame

\* db.Incr: val, ok := db.data[key]; an absent key is stored as "0".
IncrRead(c) ==
    /\ pc[c] = "Incr.read"
    /\ IF Key(c) \in DOMAIN data
       THEN /\ val' = [val EXCEPT ![c] = data[Key(c)]]
            /\ UNCHANGED data
       ELSE /\ val' = [val EXCEPT ![c] = <<"0">>]
            /\ data' = Put(data, Key(c), <<"0">>)
    /\ pc' = [pc EXCEPT ![c] = "Incr.store"]
    /\ UNCHANGED <<queues, mu, ok, responses, written>>
    /\ HandlerSame

\* What the caller of db.Incr writes after a call without error.
IncrReply(c) ==
    IF Command(c) = CmdINCR THEN ReplyOK ELSE ReplyInteger(By(c))

\* db.Incr's current, err := strconv.ParseInt(val, 10, 64), and a parse that
\* takes every text for the integer 0.
IncrParseAny(s) == [ok |-> TRUE, val |-> 0]
IncrParse(s) == ParseInt(s)

\* db.Incr: ParseInt(val); on an error the error is returned, otherwise
\* current += by is stored as text; the deferred Unlock; the caller writes
\* the error, or OK (INCR), or the increment (INCRBY).
IncrStore(c) ==
    /\ pc[c] = "Incr.store"
    /\ LET current == IncrParse(val[c]) IN
       IF ~current.ok
       THEN /\ UNCHANGED data
            /\ Return(c, <<ReplyNotInt>>)
       ELSE /\ data' = Put(data, Key(c), FormatInt(Wrap(current.val + By(c))))
            /\ Return(c, <<IncrReply(c)>>)
    /\ Unlock(c)
    /\ val' = [val EXCEPT ![c] = <<>>]
    /\ UNCHANGED <<queues, ok>>
    /\ HandlerSame

\* db.QueueCommand: db.mu.Lock()
QueueLock(c) ==
    /\ pc[c] = "Queue.Lock"
    /\ CanLock
    /\ Lock(c)
    /\ pc' = [pc EXCEPT ![c] = "Queue.body"]
    /\ UNCHANGED <<data, queues, val, ok, responses, written>>
    /\ HandlerSame

\* append(db.queues[txID], cmd): a missing queue reads as the empty one.
Appended(txID, line) ==
    Put(queues, txID, Append(IF txID \in DOMAIN queues THEN queues[txID] ELSE <<>>, line))

\* db.QueueCommand: the append, the deferred Unlock; the handler writes QUEUED.
QueueBody(c) ==
    /\ pc[c] = "Queue.body"
    /\ queues' = Appended(currentTxID[c], cmd[c])
    /\ Unlock(c)
    /\ pc' = [pc EXCEPT ![c] = "read"]
    /\ written' = [written EXCEPT ![c] = @ \o <<ReplyQueued>>]
    /\ UNCHANGED <<data, val, ok, responses>>
    /\ HandlerSame

\* db.Exec: db.mu.Lock()
ExecLock(c) ==
    /\ pc[c] = "Exec.Lock"
    /\ CanLock
    /\ Lock(c)
    /\ pc' = [pc EXCEPT ![c] = "Exec.body"]
    /\ UNCHANGED <<data, queues, val, ok, responses, written>>
    /\ HandlerSame

\* The transaction table after Exec has looked txID up.
DetachedKept(txID) == queues
Detached(txID) == Remove(queues, txID)

\* db.Exec: a missing queue gives the one response "ERR Transaction does not
\* exist"; otherwise the queue is deleted from the table and its commands
\* give the responses; the deferred Unlock.
ExecBody(c) ==
    /\ pc[c] = "Exec.body"
    /\ IF currentTxID[c] \notin DOMAIN queues
       THEN /\ responses' = [responses EXCEPT ![c] = <<ReplyNoSuchTx>>]
            /\ UNCHANGED <<queues, batch>>
       ELSE /\ batch' = [batch EXCEPT ![c] = queues[currentTxID[c]]]
            /\ responses' = [responses EXCEPT ![c] = ExecResponses(queues[currentTxID[c]])]
            /\ queues' = Detached(currentTxID[c])
    /\ Unlock(c)
    /\ pc' = [pc EXCEPT ![c] = "ExecLoop"]
    /\ UNCHANGED <<data, val, ok, written>>
    /\ UNCHANGED <<accepted, currentTxID, cmd, ret>>

\* The EXEC case's loop, one response: executeSingleCommand(command, parts)
\* with the handler's own command and parts, then the response is written.
ExecLoopIter(c) ==
    /\ pc[c] = "ExecLoop"
    /\ responses[c] # <<>>
    /\ LET r == ExecuteSingleCommand(Command(c), Parts(c)) IN
       IF r.pc = "return"
       THEN /\ written' = [written EXCEPT ![c] = @ \o r.out \o <<Head(responses[c])>>]
            /\ responses' = [responses EXCEPT ![c] = Tail(@)]
            /\ UNCHANGED <<pc, ret>>
       ELSE /\ pc' = [pc EXCEPT ![c] = r.pc]
            /\ ret' = [ret EXCEPT ![c] = "ExecLoop"]
            /\ UNCHANGED <<responses, written>>
    /\ UNCHANGED <<data, queues, mu, accepted, currentTxID, cmd, val, ok, batch>>

\* The EXEC case after its loop: currentTxID = "".
ExecLoopEnd(c) ==
    /\ pc[c] = "ExecLoop"
    /\ responses[c] = <<>>
    /\ currentTxID' = [currentTxID EXCEPT ![c] = ""]
    /\ pc' = [pc EXCEPT ![c] = "read"]
    /\ UNCHANGED <<data, queues, mu, accepted, cmd, ret, val, ok, batch, responses, written>>

\* A client of the increment scenario sends INCR a, once.
SendIncr(c) == cmd[c] = <<>> /\ ReadLineOf(c, LIncr)

\* A client of the increment-by scenario sends one of the increment lines, once.
SendIncrBy(c) == cmd[c] = <<>> /\ \E line \in IncrLines : ReadLineOf(c, line)

\* The clients of the set-then-get scenario: the first connection sends SET
\* lines, the second sends GET lines, and each sends only while the other
\* has no command under way.
SendSet(c) ==
    /\ c = 1 /\ pc[2] \in {"none", "read"}
    /\ \E k \in SetKeys, v \in SetValues : ReadLineOf(c, SetLine(k, v))
SendGet(c) ==
    /\ c = 2 /\ pc[1] = "read"
    /\ \E k \in SetKeys : ReadLineOf(c, GetLine(k))

\* What a client of the range scenario sends: it increments a counter only
\* while it is below MaxCount or within one of an end of the integer range.
WrapOffered(c, line) ==
    LET parts == Fields(line) IN
    IF ToUpper(parts[1]) \notin {CmdINCR, CmdINCRBY} THEN TRUE
    ELSE IF parts[2] \notin DOMAIN data THEN TRUE
    ELSE IF ~ParseInt(data[parts[2]]).ok THEN TRUE
    ELSE LET v == ParseInt(data[parts[2]]).val IN
         IF v >= MaxInt - 1 THEN TRUE
         ELSE IF v <= MinInt + 1 THEN TRUE
         ELSE v >= 0 /\ v < MaxCount
SendWrap(c) == \E line \in WrapLines : WrapOffered(c, line) /\ ReadLineOf(c, line)

SetGet(c) == SetLock(c) \/ SetBody(c) \/ GetRLock(c) \/ GetBody(c)

DeleteIncr(c) ==
    \/ DeleteLock(c) \/ DeleteRead(c) \/ DeleteDelete(c)
    \/ IncrLock(c) \/ IncrRead(c) \/ IncrStore(c)

Transaction(c) ==
    \/ QueueLock(c) \/ QueueBody(c)
    \/ ExecLock(c) \/ ExecBody(c) \/ ExecLoopIter(c) \/ ExecLoopEnd(c)

\* The sequential server: one connection, every line.
Next ==
    \/ AcceptOne
    \/ \E c \in ConnIds :
          ReadLine(c, Lines) \/ ReadError(c) \/ SetGet(c) \/ DeleteIncr(c) \/ Transaction(c)

Spec == Init /\ [][Next]_vars

\* Transactions side by side: MaxConns connections, the lines of TxLines.
NextTx ==
    \/ Accept
    \/ \E c \in ConnIds :
          ReadLine(c, TxLines) \/ ReadError(c) \/ SetGet(c) \/ Transaction(c)

SpecTx == Init /\ [][NextTx]_vars

\* The Store side by side: MaxConns connections, the lines of StoreLines.
NextStore ==
    \/ Accept
    \/ \E c \in ConnIds :
          ReadLine(c, StoreLines) \/ ReadError(c) \/ SetGet(c) \/ DeleteIncr(c)

SpecStore == Init /\ [][NextStore]_vars

\* Concurrent increments: IncrConns connections, each sends INCR a once.
NextIncr ==
    \/ AcceptIncr
    \/ \E c \in ConnIds : SendIncr(c) \/ IncrLock(c) \/ IncrRead(c) \/ IncrStore(c)

SpecIncr == Init /\ [][NextIncr]_vars

\* Concurrent increments by several amounts: IncrConns connections, each
\* sends INCR a, INCRBY a 2 or INCRBY a -1 once.
NextIncrBy ==
    \/ AcceptIncr
    \/ \E c \in ConnIds : SendIncrBy(c) \/ IncrLock(c) \/ IncrRead(c) \/ IncrStore(c)

SpecIncrBy == Init /\ [][NextIncrBy]_vars

\* Set, Delete and Get of two keys side by side: two connections, the lines
\* of DeleteLines.
NextDelete ==
    \/ AcceptPair
    \/ \E c \in ConnIds :
          \/ ReadLine(c, DeleteLines) \/ SetGet(c)
          \/ DeleteLock(c) \/ DeleteRead(c) \/ DeleteDelete(c)

SpecDelete == Init /\ [][NextDelete]_vars

\* Errors side by side: two connections, the lines of ErrLines, read failures.
NextErr ==
    \/ AcceptPair
    \/ \E c \in ConnIds :
          \/ ReadLine(c, ErrLines) \/ ReadError(c) \/ SetGet(c)
          \/ IncrLock(c) \/ IncrRead(c) \/ IncrStore(c)

SpecErr == Init /\ [][NextErr]_vars

\* What the client of the error-line scenario sends: inside a transaction
\* it queues only set a x, and sends foo, MULTI and EXEC.
SendFrame(c) ==
    \E line \in FrameLines :
        /\ currentTxID[c] = "" \/ line \in {LSetPlain, LMulti, LExec, LUnknown}
        /\ Offered(c, line)
        /\ ReadLineOf(c, line)

\* The sequential server with every error line: one connection, the lines of
\* FrameLines.
NextFrame ==
    \/ AcceptOne
    \/ \E c \in ConnIds :
          SendFrame(c) \/ ReadError(c) \/ SetGet(c) \/ DeleteIncr(c) \/ Transaction(c)

SpecFrame == Init /\ [][NextFrame]_vars

\* Counters at the ends of the integer range: two connections, the lines of
\* WrapLines.
NextWrap ==
    \/ AcceptPair
    \/ \E c \in ConnIds :
          SendWrap(c) \/ SetGet(c) \/ IncrLock(c) \/ IncrRead(c) \/ IncrStore(c)

SpecWrap == Init /\ [][NextWrap]_vars

\* The steps of a handler that wait for the mutex as a writer, and its
\* other steps after the read of a line.
LockStep(c) == SetLock(c) \/ DeleteLock(c) \/ IncrLock(c) \/ QueueLock(c) \/ ExecLock(c)
BodyStep(c) ==
    \/ SetBody(c) \/ GetRLock(c) \/ GetBody(c) \/ DeleteRead(c) \/ DeleteDelete(c)
    \/ IncrRead(c) \/ IncrStore(c) \/ QueueBody(c) \/ ExecBody(c)
    \/ ExecLoopIter(c) \/ ExecLoopEnd(c)

\* What a client of the lock scenario sends: inside a transaction, of the
\* data commands only GET a.
SendLock(c) ==
    \E line \in LockLines :
        /\ currentTxID[c] = "" \/ line \in {LGet, LMulti, LExec}
        /\ Offered(c, line)
        /\ ReadLineOf(c, line)

\* Every operation of the Store side by side: MaxConns connections, the
\* lines of LockLines.
NextLock ==
    \/ Accept
    \/ \E c \in ConnIds : SendLock(c) \/ LockStep(c) \/ BodyStep(c)

\* The scheduler runs every goroutine that can run, and sync.RWMutex starves
\* no writer: a Lock that can return again and again does return.  Nothing
\* makes a client send a line.
Fairness == \A c \in ConnIds : WF_vars(BodyStep(c)) /\ SF_vars(LockStep(c))

SpecLock == Init /\ [][NextLock]_vars /\ Fairness

\* Set, then Get: a connection that sets and a connection that gets, in turn.
NextSet ==
    \/ AcceptPair
    \/ \E c \in ConnIds : SendSet(c) \/ SendGet(c) \/ SetGet(c)

SpecSet == Init /\ [][NextSet]_vars

\* ------------------------------------------------------------ the claims

KeyA == <<"a">>

\* The last line c read had this command name.
IsCommand(c, name) == cmd[c] # <<>> /\ Command(c) = name

\* Everything that belongs to the handler of c: it changes only in a step of c.
Local(c) ==
    <<pc[c], currentTxID[c], cmd[c], ret[c], val[c], ok[c], batch[c], responses[c], written[c]>>

\* The command name of a line that has a field.
CommandOf(line) == ToUpper(Fields(line)[1])

\* c reads a line in this step and the line has this command name.
ReadsCommand(c, name) ==
    /\ pc[c] = "read"
    /\ Local(c)' # Local(c)
    /\ pc'[c] # "closed" \/ cmd'[c] # cmd[c]
    /\ cmd'[c] # <<>>
    /\ CommandOf(cmd'[c]) = name

\* The queued line is a SET that db.Set accepts.
IsValidSet(line) ==
    LET parts == Fields(line) IN
    /\ Len(parts) >= 3
    /\ ToUpper(parts[1]) = CmdSET
    /\ isValidValue(Join(SubSeq(parts, 3, Len(parts)), <<SP>>))

\* The queued line is a SET with too few fields.
IsShortSet(line) ==
    LET parts == Fields(line) IN
    Len(parts) \in 1..2 /\ ToUpper(parts[1]) = CmdSET

\* The EXEC case of c has written its last response.
ExecFinished(c) == pc[c] = "ExecLoop" /\ responses[c] = <<>>

\* C1: on the only connection of the server, when EXEC has replayed a batch
\* whose last command is a valid SET k v, the Store holds v under k (the
\* batch was applied in order, so the last write to k stands); in particular
\* after MULTI; SET a "1 2"; GET a; EXEC the Store holds "1 2" under a.
C1_ExecAppliesQueue ==
    \A c \in ConnIds :
        (ExecFinished(c) /\ batch[c] # <<>> /\ IsValidSet(batch[c][Len(batch[c])]))
        => LET parts == Fields(batch[c][Len(batch[c])]) IN
           /\ parts[2] \in DOMAIN data
           /\ data[parts[2]] = Join(SubSeq(parts, 3, Len(parts)), <<SP>>)

\* C2: when EXEC has finished a batch of n queued commands it has written
\* exactly n lines, and a SET with too few fields has its usage reply at its
\* own position.
C2_ExecOneReplyPerCommand ==
    \A c \in ConnIds :
        ExecFinished(c)
        => /\ Len(written[c]) = Len(batch[c])
           /\ \A i \in 1..Len(batch[c]) :
                  IsShortSet(batch[c][i]) => written[c][i] = ReplyUsageSet

\* C3: a data command read while a transaction is open is not executed: the
\* handler goes to QueueCommand, which appends the line at the tail of the
\* queue of the connection's transaction, the only reply is QUEUED, and none
\* of these steps changes the Store's data.
C3_QueuedNotExecuted ==
    [][\A c \in ConnIds :
        /\ (currentTxID[c] # "" /\ \E name \in DataCommands : ReadsCommand(c, name))
           => (pc'[c] = "Queue.Lock" /\ written'[c] = <<>> /\ data' = data /\ queues' = queues)
        /\ (pc[c] = "Queue.Lock" /\ pc'[c] # pc[c])
           => (pc'[c] = "Queue.body" /\ written'[c] = <<>> /\ data' = data /\ queues' = queues)
        /\ (pc[c] = "Queue.body" /\ pc'[c] # pc[c])
           => /\ pc'[c] = "read"
              /\ written'[c] = <<ReplyQueued>>
              /\ data' = data
              /\ currentTxID'[c] = currentTxID[c]
              /\ queues' = Put(queues, currentTxID[c],
                               Append(IF currentTxID[c] \in DOMAIN queues
                                      THEN queues[currentTxID[c]] ELSE <<>>, cmd[c]))
      ]_vars

\* C3 witness: INCRBY was queued second in an open transaction, the reply is
\* QUEUED and the Store still holds the value set before the transaction.
C3_Witness ==
    \E c \in ConnIds :
        /\ pc[c] = "read" /\ IsCommand(c, CmdINCRBY) /\ written[c] = <<ReplyQueued>>
        /\ currentTxID[c] \in DOMAIN queues
        /\ Len(queues[currentTxID[c]]) = 2
        /\ queues[currentTxID[c]][2] = cmd[c]
        /\ KeyA \in DOMAIN data /\ data[KeyA] = <<"1">>

\* A connection of the increment scenario has had its reply.
IncrDone(c) == pc[c] = "read" /\ cmd[c] # <<>>

\* C4: whenever no Increment is between its read and its store, the counter
\* of the fresh key is exactly the number of INCR calls that have returned
\* (the key is absent while none has), and each of them was answered OK.
C4_NoLostIncrement ==
    (\A c \in ConnIds : pc[c] \notin {"Incr.read", "Incr.store"})
    => LET n == Cardinality({c \in ConnIds : IncrDone(c)}) IN
       /\ \A c \in ConnIds : IncrDone(c) => written[c] = <<ReplyOK>>
       /\ IF n = 0 THEN KeyA \notin DOMAIN data
          ELSE KeyA \in DOMAIN data /\ ParseInt(data[KeyA]) = [ok |-> TRUE, val |-> n]

\* C4 witness: all the connections of the scenario have incremented the
\* key and it holds their number.
C4_Witness ==
    /\ accepted = IncrConns
    /\ \A c \in Conns : IncrDone(c)
    /\ KeyA \in DOMAIN data /\ data[KeyA] = FormatInt(IncrConns)

\* C5: a connection whose last line was queued in its open transaction still
\* finds that line at the tail of its transaction's queue: no other
\* connection has removed, emptied or extended its transaction.
C5_TransactionOwned ==
    \A d \in ConnIds :
        (pc[d] = "read" /\ currentTxID[d] # "" /\ written[d] = <<ReplyQueued>>)
        => /\ currentTxID[d] \in DOMAIN queues
           /\ queues[currentTxID[d]][Len(queues[currentTxID[d]])] = cmd[d]

\* The positions at which an operation holds the lock for writing.
WritePcs ==
    {"Set.body", "Delete.read", "Delete.delete", "Incr.read", "Incr.store",
     "Queue.body", "Exec.body"}

\* C6: every Store operation runs its body with the lock held in its mode: a
\* writer alone, a reader with readers only; so the bodies of two operations
\* never overlap unless both are Gets, and what Increment and Delete have
\* read is still what the Store holds when they write.  Each operation thus
\* takes effect at one point, in the order in which the lock was taken.
C6_OperationsAtomic ==
    /\ mu.writer # 0 => mu.readers = {}
    /\ \A c \in ConnIds :
        /\ pc[c] \in WritePcs => mu.writer = c
        /\ pc[c] = "Get.body" => (c \in mu.readers /\ mu.writer = 0)
        /\ pc[c] = "Incr.store" => (Key(c) \in DOMAIN data /\ data[Key(c)] = val[c])
        /\ pc[c] = "Delete.delete" => (ok[c] <=> Key(c) \in DOMAIN data)

\* C6 witness: one connection is inside Increment, between its read and its
\* store, while another waits for the lock to read the same key.
C6_Witness ==
    \E c, d \in ConnIds :
        /\ c # d
        /\ pc[c] = "Incr.store" /\ val[c] = <<"1">>
        /\ pc[d] = "Get.RLock" /\ Key(d) = Key(c)

\* C7: EXEC read while no transaction is open writes the one line
\* ERR No transaction in progress and changes nothing else: the Store's
\* data, the transaction table, every connection's state and position.
C7_ExecIdleNoEffect ==
    [][\A c \in ConnIds :
        (currentTxID[c] = "" /\ ReadsCommand(c, CmdEXEC))
        => /\ written'[c] = <<ReplyNoTx>>
           /\ data' = data /\ queues' = queues /\ mu' = mu
           /\ currentTxID' = currentTxID /\ pc' = pc
           /\ responses' = responses /\ batch'[c] = <<>>
      ]_vars

\* C7 witness: EXEC was refused on an idle connection while the Store held a
\* value and another connection's transaction had a queue.
C7_Witness ==
    \E c \in ConnIds :
        /\ pc[c] = "read" /\ IsCommand(c, CmdEXEC) /\ written[c] = <<ReplyNoTx>>
        /\ currentTxID[c] = ""
        /\ KeyA \in DOMAIN data
        /\ \E d \in ConnIds : d # c /\ currentTxID[d] \in DOMAIN queues

\* C8: Exec takes the queue out of the transaction table before the handler
\* writes any response; after the last response the connection has no
\* transaction; from then on EXEC is refused with ERR No transaction in
\* progress and replays nothing, and only MULTI opens a transaction again.
C8_ExecDetachesQueue ==
    [][\A c \in ConnIds :
        /\ (pc[c] = "Exec.body" /\ pc'[c] # pc[c])
           => (pc'[c] = "ExecLoop" /\ written'[c] = <<>>
               /\ currentTxID[c] \notin DOMAIN queues')
        /\ (pc[c] = "ExecLoop" /\ pc'[c] = "read") => currentTxID'[c] = ""
        /\ (currentTxID[c] = "" /\ ReadsCommand(c, CmdEXEC))
           => (written'[c] = <<ReplyNoTx>> /\ pc'[c] = "read"
               /\ batch'[c] = <<>> /\ responses'[c] = <<>>)
        /\ (currentTxID[c] = "" /\ currentTxID'[c] # "") => ReadsCommand(c, CmdMULTI)
      ]_vars

\* C8 witness: Exec has returned a batch and the handler has written nothing
\* yet: the transaction table no longer holds the queue.
C8_Witness ==
    \E c \in ConnIds :
        /\ pc[c] = "ExecLoop" /\ written[c] = <<>>
        /\ Len(batch[c]) = 2 /\ Len(responses[c]) = 2
        /\ currentTxID[c] \notin DOMAIN queues

\* C9: after MULTI the reply is OK and the connection is queuing with an
\* empty queue, also when MULTI is sent inside a transaction.
C9_MultiStartsEmpty ==
    \A c \in ConnIds :
        (pc[c] = "read" /\ IsCommand(c, CmdMULTI))
        => (written[c] = <<ReplyOK>> /\ currentTxID[c] # "" /\ QueueLen(c) = 0)

\* C10: when a connection has closed with a transaction open, and no other
\* connection has a transaction open, the transaction table holds no queue
\* for that transaction.
C10_DisconnectDiscardsQueue ==
    \A c \in ConnIds :
        (/\ pc[c] = "closed" /\ currentTxID[c] # ""
         /\ \A d \in ConnIds \ {c} : currentTxID[d] = "")
        => currentTxID[c] \notin DOMAIN queues

\* c is inside Increment on a key whose stored text is not an integer.
IncrOnNonInteger(c) ==
    /\ pc[c] \in {"Incr.Lock", "Incr.read", "Incr.store"}
    /\ Key(c) \in DOMAIN data
    /\ ~ParseInt(data[Key(c)]).ok

\* C11: Increment on a key whose stored value does not parse as an integer
\* leaves the Store's data exactly as it was at each of its steps (no value
\* changes, no key is added or removed), and it returns with the one reply
\* ERR value is not an integer.
C11_IncrNonIntegerFails ==
    [][\A c \in ConnIds :
        (IncrOnNonInteger(c) /\ pc'[c] # pc[c])
        => /\ data' = data
           /\ pc[c] = "Incr.store"
              => (pc'[c] = "read" /\ written'[c] = <<ReplyNotInt>> /\ mu'.writer = 0)
      ]_vars

\* C11 witness: INCRBY a 2 was refused with the not-an-integer error while
\* the Store holds the text x under a.
C11_Witness ==
    \E c \in ConnIds :
        /\ pc[c] = "read" /\ IsCommand(c, CmdINCRBY) /\ written[c] = <<ReplyNotInt>>
        /\ data = Put(EmptyMap, KeyA, <<"x">>)

\* The amount an increment line of the scenario asks for.
AmountOf(line) == IF line = LIncr THEN 1 ELSE IF line = LIncrBy THEN 2 ELSE -1

\* The sum of the amounts of the lines these connections sent.
RECURSIVE SumAmount(_)
SumAmount(S) ==
    IF S = {} THEN 0
    ELSE LET c == CHOOSE x \in S : TRUE IN AmountOf(cmd[c]) + SumAmount(S \ {c})

\* C12: on a key that starts absent and that only Increment writes, whenever
\* no Increment is between its read and its store the key holds the decimal
\* text of the sum of the amounts of the Increment calls that have returned
\* (0 + n after the first call, n + m after the second), and it is absent
\* while none has returned.
C12_IncrFromAbsent ==
    (\A c \in ConnIds : pc[c] \notin {"Incr.read", "Incr.store"})
    => LET done == {c \in ConnIds : IncrDone(c)} IN
       IF done = {} THEN data = EmptyMap
       ELSE /\ data = Put(EmptyMap, KeyA, FormatInt(SumAmount(done)))
            /\ ParseInt(data[KeyA]) = [ok |-> TRUE, val |-> SumAmount(done)]

\* C12 witness: INCRBY a 2 and INCR a, and no other call, have returned on
\* the key that started absent, and the key holds 3.
C12_Witness ==
    \E c, d \in ConnIds :
        /\ c # d
        /\ IncrDone(c) /\ cmd[c] = LIncrBy /\ written[c] = <<ReplyInteger(2)>>
        /\ IncrDone(d) /\ cmd[d] = LIncr /\ written[d] = <<ReplyOK>>
        /\ \A e \in ConnIds \ {c, d} : cmd[e] = <<>>
        /\ data = Put(EmptyMap, KeyA, <<"3">>)

\* The validation rule as the claim words it: no space character, or the
\* first and the last character are double quotes.
NoSpaceOrQuoted(v) ==
    \/ \A i \in 1..Len(v) : v[i] # SP
    \/ v # <<>> /\ v[1] = QUOTE /\ v[Len(v)] = QUOTE

\* C13: for every key k and value v, SET k v on an idle connection: when v
\* has no space or is wrapped in double quotes, Set takes the lock, stores
\* exactly v under k and is answered OK, and a Get of k that follows it, with
\* no other Set in between, returns v; otherwise Set is answered with the
\* validation error, never takes the lock and leaves the Store unchanged.
C13_SetValidatesAndRoundTrips ==
    [][\A c \in ConnIds, k \in SetKeys, v \in SetValues :
        /\ (ReadsCommand(c, CmdSET) /\ cmd'[c] = SetLine(k, v))
           => /\ data' = data
              /\ IF NoSpaceOrQuoted(v)
                 THEN pc'[c] = "Set.Lock" /\ written'[c] = <<>>
                 ELSE pc'[c] = "read" /\ written'[c] = <<ReplySyntax>>
        /\ (pc[c] = "Set.body" /\ pc'[c] # pc[c] /\ cmd[c] = SetLine(k, v))
           => /\ data' = Put(data, k, v)
              /\ pc'[c] = "read" /\ written'[c] = <<ReplyOK>>
        /\ (/\ pc[c] = "Get.body" /\ pc'[c] # pc[c] /\ cmd[c] = GetLine(k)
            /\ \E d \in ConnIds :
                  pc[d] = "read" /\ cmd[d] = SetLine(k, v) /\ written[d] = <<ReplyOK>>)
           => (data' = data /\ pc'[c] = "read" /\ written'[c] = <<ReplyQuoted(v)>>)
      ]_vars

\* C13 witness: SET b " " (a value of spaces inside double quotes) was
\* answered OK, the GET b that followed returned it, and the key a still
\* holds the unquoted x that an earlier SET stored.
C13_Witness ==
    /\ pc[1] = "read" /\ cmd[1] = SetLine(<<"b">>, <<QUOTE,SP,QUOTE>>)
    /\ written[1] = <<ReplyOK>>
    /\ pc[2] = "read" /\ cmd[2] = GetLine(<<"b">>)
    /\ written[2] = <<ReplyQuoted(<<QUOTE,SP,QUOTE>>)>>
    /\ <<"a">> \in DOMAIN data /\ data[<<"a">>] = <<"x">>

\* C14: for every key k, Delete's steps before its last leave the Store
\* alone; its last step, when k is absent, changes nothing and is answered
\* (integer) 0, and when k is present removes k and only k and is answered
\* (integer) 1; either way k is absent afterwards.  An absent key becomes
\* present only by a Set of that key, so with no write to k in between a
\* following Get of k is answered (nil) and a second Delete of k is answered
\* (integer) 0 and leaves the Store as the first Delete left it.
C14_DeleteSemantics ==
    [][\A c \in ConnIds, k \in SetKeys :
        /\ (pc[c] \in {"Delete.Lock", "Delete.read"} /\ pc'[c] # pc[c]) => data' = data
        /\ (pc[c] = "Delete.delete" /\ pc'[c] # pc[c] /\ cmd[c] = DeleteLine(k))
           => /\ pc'[c] = "read"
              /\ k \notin DOMAIN data'
              /\ IF k \in DOMAIN data
                 THEN /\ written'[c] = <<ReplyOne>>
                      /\ data' = [x \in (DOMAIN data) \ {k} |-> data[x]]
                 ELSE /\ written'[c] = <<ReplyZero>>
                      /\ data' = data
        /\ (pc[c] = "Get.body" /\ pc'[c] # pc[c] /\ cmd[c] = GetLine(k)
                /\ k \notin DOMAIN data)
           => (written'[c] = <<ReplyNil>> /\ data' = data)
        /\ (k \notin DOMAIN data /\ k \in DOMAIN data')
           => \E d \in ConnIds : pc[d] = "Set.body" /\ pc'[d] # pc[d] /\ Key(d) = k
      ]_vars

\* C14 witness: of two DELETE a, one was answered (integer) 1 and the other
\* (integer) 0; the key a is absent and the key b still holds its value.
C14_Witness ==
    \E c, d \in ConnIds :
        /\ pc[c] = "read" /\ cmd[c] = DeleteLine(<<"a">>) /\ written[c] = <<ReplyOne>>
        /\ pc[d] = "read" /\ cmd[d] = DeleteLine(<<"a">>) /\ written[d] = <<ReplyZero>>
        /\ data = Put(EmptyMap, <<"b">>, <<"x">>)

\* c reads this line in this step.
ReadsLine(c, line) ==
    /\ pc[c] = "read"
    /\ Local(c)' # Local(c)
    /\ pc'[c] # "closed" \/ cmd'[c] # cmd[c]
    /\ cmd'[c] = line

\* The lines that are in error outside a transaction, each with its reply.
ErrorReplyOf(line) ==
    CASE line = LSetShort -> ReplyUsageSet
      [] line = LGetShort -> ReplyUsageGet
      [] line = LDeleteShort -> ReplyUsageDelete
      [] line = LIncrShort -> ReplyUsageIncr
      [] line = LIncrByShort -> ReplyUsageIncrBy
      [] line = LSetUnquoted -> ReplySyntax
      [] line = LIncrByBad -> ReplyBadIncr
      [] line = LExec -> ReplyNoTx
      [] line = LUnknown -> ReplyUnknown(<<"F","O","O">>)
ErrorLines ==
    { LSetShort, LGetShort, LDeleteShort, LIncrShort, LIncrByShort, LSetUnquoted,
      LIncrByBad, LExec, LUnknown }

\* Everything but the handler of c is as it was.
OthersSame(c) ==
    /\ data' = data /\ queues' = queues /\ mu' = mu
    /\ \A d \in ConnIds \ {c} : Local(d)' = Local(d)

\* C15: outside a transaction, a line with a usage, validation,
\* invalid-increment, no-transaction or unknown-command error is answered
\* with exactly its error line, and an Increment of a non-integer value with
\* ERR value is not an integer; the handler is then back at its read, the
\* connection open.  A handler ends only at its read, on DISCONNECT or on a
\* read failure; the step touches neither the Store nor another handler, and
\* a closed connection holds no lock, so the others keep running.
C15_ErrorsKeepConnectionOpen ==
    [][\A c \in ConnIds :
        /\ \A line \in ErrorLines :
              (currentTxID[c] = "" /\ ReadsLine(c, line))
              => (pc'[c] = "read" /\ written'[c] = <<ErrorReplyOf(line)>> /\ OthersSame(c))
        /\ (pc[c] = "Incr.store" /\ pc'[c] # pc[c] /\ ~ParseInt(val[c]).ok)
           => (pc'[c] = "read" /\ written'[c] = <<ReplyNotInt>>)
        /\ (pc[c] # "closed" /\ pc'[c] = "closed")
           => /\ pc[c] = "read"
              /\ cmd'[c] = cmd[c] \/ cmd'[c] = LDisconnect
              /\ OthersSame(c)
              /\ mu.writer # c /\ c \notin mu.readers
        /\ pc[c] = "closed" => pc'[c] = "closed"
      ]_vars

\* C15 witness: one connection has gone with DISCONNECT; the other has been
\* refused an Increment of the text x and is back at its read.
C15_Witness ==
    \E c, d \in ConnIds :
        /\ pc[c] = "closed" /\ cmd[c] = LDisconnect
        /\ pc[d] = "read" /\ cmd[d] = LIncr /\ written[d] = <<ReplyNotInt>>
        /\ data = Put(EmptyMap, KeyA, <<"x">>)

\* The error replies of the claim C16: a usage line, the validation error,
\* the invalid increment, an unknown command.
IsFrameError(reply) ==
    \/ reply \in { ReplyUsageSet, ReplyUsageGet, ReplyUsageDelete, ReplyUsageIncr,
                    ReplyUsageIncrBy, ReplySyntax, ReplyBadIncr }
    \/ reply.fmt = "Unknown command: %s"

\* The lines of C16 that are in error when executed at once, and the line
\* that is in error also inside a transaction.
FrameErrorLines ==
    { LSetShort, LGetShort, LDeleteShort, LIncrShort, LIncrByShort, LSetUnquoted,
      LIncrByBad, LUnknown }

\* C16: a line read at the top of the handler's loop that has a wrong
\* argument count, a SET value that fails validation, an INCRBY amount that
\* is no integer (each outside a transaction) or an unknown command name (in
\* a transaction or not) is answered with its error line, and every read
\* step answered with such an error line leaves the Store's data and the
\* whole transaction table unchanged.
C16_ErrorRepliesChangeNothing ==
    [][\A c \in ConnIds :
        /\ \A line \in FrameErrorLines :
              ((currentTxID[c] = "" \/ line = LUnknown) /\ ReadsLine(c, line))
              => /\ written'[c] = <<ErrorReplyOf(line)>>
                 /\ data' = data /\ queues' = queues
        /\ (/\ pc[c] = "read" /\ Local(c)' # Local(c)
            /\ pc'[c] # "closed" \/ cmd'[c] # cmd[c]
            /\ written'[c] # <<>> /\ IsFrameError(written'[c][1]))
           => (data' = data /\ queues' = queues /\ pc'[c] = "read")
      ]_vars

\* C16 witness: inside a transaction with a queued command, over a Store
\* that holds a value, foo was answered Unknown command: FOO.
C16_Witness ==
    \E c \in ConnIds :
        /\ pc[c] = "read" /\ cmd[c] = LUnknown
        /\ written[c] = <<ReplyUnknown(<<"F","O","O">>)>>
        /\ currentTxID[c] \in DOMAIN queues /\ queues[currentTxID[c]] # <<>>
        /\ KeyA \in DOMAIN data

\* The queued command whose response the EXEC case of c writes next.
NextQueued(c) == batch[c][Len(batch[c]) - Len(responses[c]) + 1]

\* C17: each iteration of the EXEC case's loop applies its queued command as
\* a Store operation of its own: when the command is one that
\* executeSingleCommand takes to the Store (a SET with a valid value, a GET,
\* DELETE, INCR or INCRBY with its arguments), the iteration goes on to that
\* operation's acquisition of the lock, where the write of another
\* connection can come between two commands of the batch.
C17_ExecAppliesEachCommandApart ==
    [][\A c \in ConnIds :
        (/\ pc[c] = "ExecLoop" /\ Local(c)' # Local(c)
         /\ batch[c] # <<>> /\ responses[c] # <<>>
         /\ ExecuteSingleCommand(CommandOf(NextQueued(c)), Fields(NextQueued(c))).pc # "return")
        => pc'[c] = ExecuteSingleCommand(CommandOf(NextQueued(c)), Fields(NextQueued(c))).pc
      ]_vars

\* Decimal integer text: an optional minus sign, then digits only.
IsDecimalText(s) ==
    LET ds == IF s # <<>> /\ s[1] = "-" THEN Tail(s) ELSE s IN
    ds # <<>> /\ \A i \in 1..Len(ds) : IsDigit(ds[i])

\* C18: after every step of Set, Delete and Increment from any connection,
\* every value the Store holds has no space character or has double quotes
\* as its first and last character; and whatever a step of Increment stores
\* is decimal integer text.
C18_StoredValuesValid ==
    [][/\ \A k \in DOMAIN data' : NoSpaceOrQuoted(data'[k])
       /\ \A c \in ConnIds :
             (pc[c] \in {"Incr.read", "Incr.store"} /\ data' # data)
             => (\A k \in DOMAIN data' :
                    (k \notin DOMAIN data \/ data'[k] # data[k]) => IsDecimalText(data'[k]))
      ]_vars

\* C18 witness: the Store holds the quoted "1 2" while a connection has just
\* had its SET a x y refused and another is about to add 2 to the key.
C18_Witness ==
    \E c, d \in ConnIds :
        /\ pc[c] = "read" /\ cmd[c] = LSetUnquoted /\ written[c] = <<ReplySyntax>>
        /\ pc[d] = "Incr.Lock" /\ cmd[d] = LIncrBy
        /\ data = Put(EmptyMap, KeyA, <<QUOTE,"1",SP,"2",QUOTE>>)

\* C19: a successful Increment of a stored integer v by an amount by stores
\* the decimal text of the integer sum v + by, which reads back as v + by:
\* the result is never a wrapped-around value.
C19_IncrExactSum ==
    [][\A c \in ConnIds :
        (pc[c] = "Incr.store" /\ pc'[c] # pc[c] /\ ParseInt(val[c]).ok)
        => LET sum == ParseInt(val[c]).val
                        + (IF cmd[c] = LIncr THEN 1 ELSE ParseInt(Fields(cmd[c])[3]).val)
           IN  /\ Key(c) \in DOMAIN data'
               /\ data'[Key(c)] = FormatInt(sum)
               /\ ParseInt(data'[Key(c)]) = [ok |-> TRUE, val |-> sum]
      ]_vars

\* The positions inside an operation of the Store.
OpPcs == LockPcs \cup WritePcs \cup {"Get.RLock", "Get.body"}

\* The mutex is held exactly by the handlers inside the body of an
\* operation, in the operation's mode, and a handler that calls Lock or
\* RLock does not hold it as a writer (nor, calling Lock, as a reader).
LockDiscipline ==
    /\ mu.writer # 0 => (pc[mu.writer] \in WritePcs /\ mu.readers = {})
    /\ \A c \in ConnIds :
          /\ c \in mu.readers => pc[c] \in {"Get.RLock", "Get.body"}
          /\ pc[c] \in WritePcs => mu.writer = c
          /\ pc[c] = "Get.body" => c \in mu.readers
          /\ pc[c] \in LockPcs => (mu.writer # c /\ c \notin mu.readers)
          /\ pc[c] = "Get.RLock" => mu.writer # c
          /\ pc[c] \in {"none", "read", "closed", "ExecLoop"}
             => (mu.writer # c /\ c \notin mu.readers)

\* While a handler is inside an operation, some handler can take a step.
NoDeadlock ==
    (\E c \in ConnIds : pc[c] \in OpPcs)
    => \E c \in ConnIds :
          \/ pc[c] \in WritePcs \cup {"Get.body"}
          \/ pc[c] \in LockPcs /\ CanLock
          \/ pc[c] = "Get.RLock" /\ (c \in mu.readers \/ CanRLock)

\* C20: every operation of the Store holds the mutex only inside its body
\* and has released it wherever it returns, its error returns included, and
\* none calls Lock or RLock while holding it; no reachable state with an
\* operation under way is a deadlock; and under fair scheduling every
\* command a handler has started brings the handler back to its read.
C20_LockDisciplineAndProgress ==
    /\ [](LockDiscipline /\ NoDeadlock)
    /\ \A c \in ConnIds : (pc[c] \notin {"none", "read", "closed"}) ~> (pc[c] = "read")

\* C20 witness: one handler is back at its read from Incr's error return
\* while another is inside Exec with the mutex and a queue to take.
C20_Witness ==
    \E c, d \in ConnIds :
        /\ pc[c] = "read" /\ cmd[c] = LIncr /\ written[c] = <<ReplyNotInt>>
        /\ pc[d] = "Exec.body" /\ mu.writer = d
        /\ currentTxID[d] \in DOMAIN queues

=============================================================================
